---- MODULE Spec2Model ----
(***************************************************************************)
(* State-machine model of the predictors of ML-Karoprod-CutPredictor:      *)
(* CutPredictor (src/src/cut_predictor/Regressor1D.py) and                 *)
(* ProjectionPredictor (src/src/mesh_predictor/Regressor2D.py), together   *)
(* with the parts of their base class Predictor and of Utils that they     *)
(* call (those two files are not in src/ and are modelled from spec.md).   *)
(***************************************************************************)
EXTENDS Integers, Sequences, FiniteSets, TLC

(***************************************************************************)
(* Bounds of the model.                                                    *)
(***************************************************************************)
\* largest number of positions per axis asked of predict
MaxCount == 3
\* largest number of trials asked of autotune
MaxTrials == 3

(***************************************************************************)
(* Numbers.  numpy floats are modelled as exact rationals <<n, d>> in      *)
(* lowest terms with d > 0; sqrt, cos and sin are rational approximations. *)
(***************************************************************************)
RECURSIVE GCD(_, _)
GCD(a, b) == IF b = 0 THEN a ELSE GCD(b, a % b)

Abs(a) == IF a < 0 THEN -a ELSE a

Q(n, d) ==
    LET s == IF d < 0 THEN -1 ELSE 1
        g == GCD(Abs(n), Abs(d))
    IN  <<(s * n) \div g, (s * d) \div g>>

R(n) == <<n, 1>>

Add(a, b) == Q(a[1] * b[2] + b[1] * a[2], a[2] * b[2])
Sub(a, b) == Q(a[1] * b[2] - b[1] * a[2], a[2] * b[2])
Mul(a, b) == Q(a[1] * b[1], a[2] * b[2])
\* numpy division; the divisor is never zero where the model divides
Div(a, b) == Q(a[1] * b[2], a[2] * b[1])
Less(a, b) == a[1] * b[2] < b[1] * a[2]
IsZero(a) == a[1] = 0

\* integer square root
ISqrt(n) == CHOOSE r \in 0..n : r * r <= n /\ (r + 1) * (r + 1) > n

\* np.sqrt: exact on squares of rationals, else rounded down to 1/16
Sqrt(a) ==
    LET rn == ISqrt(a[1])
        rd == ISqrt(a[2])
    IN  IF rn * rn = a[1] /\ rd * rd = a[2]
        THEN Q(rn, rd)
        ELSE Q(ISqrt((a[1] * 256) \div a[2]), 16)

RECURSIVE SumSeq(_)
SumSeq(s) == IF s = <<>> THEN R(0) ELSE Add(Head(s), SumSeq(Tail(s)))

RECURSIVE MinSeq(_)
MinSeq(s) ==
    IF Len(s) = 1 THEN s[1]
    ELSE LET m == MinSeq(Tail(s)) IN IF Less(s[1], m) THEN s[1] ELSE m

RECURSIVE MaxSeq(_)
MaxSeq(s) ==
    IF Len(s) = 1 THEN s[1]
    ELSE LET m == MaxSeq(Tail(s)) IN IF Less(m, s[1]) THEN s[1] ELSE m

\* column.mean()
Mean(s) == Div(SumSeq(s), R(Len(s)))

\* column.std(), population standard deviation
Std(s) ==
    LET m == Mean(s)
        sq == [i \in 1..Len(s) |-> Mul(Sub(s[i], m), Sub(s[i], m))]
    IN  Sqrt(Mean(sq))

(***************************************************************************)
(* Angles are stored in quarter turns (1 = pi/2 rad).  np.sin and np.cos   *)
(* are Bhaskara's rational approximation, exact at every multiple of a     *)
(* quarter turn and of a third of a quarter turn next to 0 and to 2.       *)
(***************************************************************************)
\* a reduced into [0, 4)
Mod4(a) ==
    LET k == a[1] \div (4 * a[2]) IN Sub(a, R(4 * k))

\* sine on [0, 2] quarter turns: 4q(2-q) / (5 - q(2-q))
SinHalf(q) ==
    LET p == Mul(q, Sub(R(2), q)) IN Div(Mul(R(4), p), Sub(R(5), p))

Sin(a) ==
    LET q == Mod4(a)
    IN  IF Less(q, R(2)) THEN SinHalf(q)
        ELSE Sub(R(0), SinHalf(Sub(q, R(2))))

Cos(a) == Sin(Add(a, R(1)))

(***************************************************************************)
(* The tables handed to load_data: the design of experiments (one row per  *)
(* doe_id) and the observations (several rows per doe_id).                 *)
(***************************************************************************)
doe ==
    << [doe_id |-> 1, Blechdicke |-> R(1), Ziehspalt |-> R(24)],
       [doe_id |-> 2, Blechdicke |-> R(3), Ziehspalt |-> R(16)],
       [doe_id |-> 3, Blechdicke |-> R(3), Ziehspalt |-> R(24)] >>

data ==
    << [doe_id |-> 1, tp |-> R(0), xp |-> R(1), yp |-> R(0), deviation |-> R(2), thickness |-> R(1)],
       [doe_id |-> 1, tp |-> R(2), xp |-> R(5), yp |-> R(4), deviation |-> R(6), thickness |-> R(3)],
       [doe_id |-> 2, tp |-> R(4), xp |-> R(1), yp |-> R(4), deviation |-> R(2), thickness |-> R(3)],
       [doe_id |-> 2, tp |-> R(1), xp |-> R(5), yp |-> R(0), deviation |-> R(6), thickness |-> R(1)],
       [doe_id |-> 3, tp |-> R(3), xp |-> R(3), yp |-> R(2), deviation |-> R(4), thickness |-> R(2)] >>

\* an observation table with a row of an experiment the design table lacks
data_orphan ==
    Append(data, [doe_id |-> 9, tp |-> R(2), xp |-> R(3), yp |-> R(2),
                  deviation |-> R(4), thickness |-> R(2)])

(***************************************************************************)
(* Python values.  A str is the sequence of its characters, a list the     *)
(* sequence of its elements; len() and iteration work on both.             *)
(***************************************************************************)
PyStr(name, chars) == [t |-> "str", name |-> name, v |-> chars]
PyList(elems) == [t |-> "list", name |-> "", v |-> elems]

\* len(x)
PyLen(x) == Len(x.v)

\* isinstance(x, list)
IsList(x) == x.t = "list"

\* x if isinstance(x, list) else [x]
AsList(x) == IF IsList(x) THEN x.v ELSE <<x.name>>

\* the elements met by `for attr in x` and by x[i]
Elems(x) == x.v

\* a dict without keys
EmptyDict == [a \in {} |-> R(0)]

\* the elements of a sequence
Range(s) == {s[i] : i \in DOMAIN s}

\* list.index(v): the first place of v in s
IndexOf(s, v) == CHOOSE i \in DOMAIN s : s[i] = v /\ \A j \in 1..(i - 1) : s[j] # v

RECURSIVE Unique(_)
\* the distinct values of s in order of first appearance
Unique(s) ==
    IF s = <<>> THEN <<>>
    ELSE LET u == Unique(SubSeq(s, 1, Len(s) - 1))
         IN  IF s[Len(s)] \in Range(u) THEN u ELSE Append(u, s[Len(s)])

RECURSIVE Flatten(_)
\* np.concatenate(..., axis=1) of the blocks of one row
Flatten(blocks) ==
    IF blocks = <<>> THEN <<>> ELSE Head(blocks) \o Flatten(Tail(blocks))

(***************************************************************************)
(* The external model.  A trained network is a handle [trial, config]; its *)
(* output k on a feature row is a fixed function of the row that depends   *)
(* on the place of every column.                                           *)
(***************************************************************************)
NoConfig == [layers |-> 0, neurons |-> 0]
NoModel == [trial |-> 0, config |-> NoConfig]

Configs == {[layers |-> 4, neurons |-> 64], [layers |-> 6, neurons |-> 256]}

RECURSIVE Weighted(_, _)
Weighted(x, j) ==
    IF x = <<>> THEN R(0)
    ELSE Add(Mul(R(j), Head(x)), Weighted(Tail(x), j + 1))

\* model.predict(X)[n][k] for the row x = X[n]
NetOutput(m, x, k) == Add(Mul(R(m.trial), Weighted(x, 1)), R(k))

(***************************************************************************)
(* The predictor object.  reg holds every field of the instance; ret is    *)
(* the outcome of the last call, with the arguments of the call under      *)
(* args, and Idle once the caller has taken it; study is the record        *)
(* autotune keeps while it runs.                                           *)
(***************************************************************************)
VARIABLES reg, ret, study

vars == <<reg, ret, study>>

Idle == [op |-> "", kind |-> "idle"]
\* `return` without a value, after the message was printed
NoResult(op, msg) == [op |-> op, kind |-> "none", msg |-> msg]
\* an exception leaves the call
Raise(op, exc) == [op |-> op, kind |-> "raise", exc |-> exc]
\* sys.exit()
Exit(op) == [op |-> op, kind |-> "exit"]
\* a call that returns None after doing its work
Done(op) == [op |-> op, kind |-> "done"]

NoStudy == [active |-> FALSE, trials |-> 0, history |-> <<>>,
            best_score |-> 0, best_config |-> NoConfig, saved |-> NoModel]

\* Predictor.__init__
Fresh(class) ==
    [class |-> class,
     has_config |-> FALSE, data_loaded |-> FALSE, model |-> NoModel,
     process_parameters |-> <<>>, position_attributes |-> <<>>,
     output_attributes |-> <<>>, categorical_attributes |-> <<>>,
     angle_input |-> FALSE, position_scaler |-> "normal",
     validation_split |-> Q(1, 10), validation_method |-> "random",
     categorical_values |-> [a \in {} |-> <<>>],
     mean_values |-> EmptyDict, std_values |-> EmptyDict,
     min_values |-> EmptyDict, max_values |-> EmptyDict,
     df |-> <<>>, X |-> <<>>, target |-> <<>>,
     doe_id_list |-> <<>>, doe_ids |-> <<>>, val_rows |-> {}]

(***************************************************************************)
(* Utils.one_hot and the scalers.                                          *)
(***************************************************************************)
\* one_hot([v], values) succeeds
KnownCategory(v, values) == v \in Range(values)

\* the row one_hot([v], values)[0] is filled with: 1.0 at the place of v
one_hot(v, values) ==
    [i \in 1..Len(values) |-> IF values[i] = v THEN R(1) ELSE R(0)]

\* (v - mean[a]) / std[a]
Normal(r, attr, v) == Div(Sub(v, r.mean_values[attr]), r.std_values[attr])

\* (v - min[a]) / (max[a] - min[a])
MinMax(r, attr, v) ==
    Div(Sub(v, r.min_values[attr]), Sub(r.max_values[attr], r.min_values[attr]))

\* Predictor._rescale_output: the inverse of the output normalization
rescale_output(r, attr, y) == Add(r.mean_values[attr], Mul(r.std_values[attr], y))

(***************************************************************************)
(* Predictor._preprocess_parameters, _preprocess_variables, _make_arrays.  *)
(* Each step gives [err, reg]: err is "" when the step went through.       *)
(***************************************************************************)
Column(table, attr) == [i \in 1..Len(table) |-> table[i][attr]]

Columns(table) == IF table = <<>> THEN {} ELSE DOMAIN table[1]

Step(err, r) == [err |-> err, reg |-> r]

preprocess_parameters(r, design) ==
    IF \E attr \in Range(r.process_parameters) \cup Range(r.categorical_attributes) :
            attr \notin Columns(design)
    THEN Step("ConfigurationError", r)
    ELSE Step("", [r EXCEPT !.categorical_values =
                      [attr \in Range(r.categorical_attributes) |->
                          Unique(Column(design, attr))]])

\* the design row of an observation row
DesignRow(design, id) == design[CHOOSE i \in DOMAIN design : design[i].doe_id = id]

\* the observation rows with the process parameters of their experiment
Expand(design, table) ==
    [i \in 1..Len(table) |-> DesignRow(design, table[i].doe_id) @@ table[i]]

\* the attributes that are scaled, not one-hot encoded
Continuous(r) ==
    {attr \in Range(r.process_parameters) : attr \notin Range(r.categorical_attributes)}
        \cup Range(r.position_attributes) \cup Range(r.output_attributes)

preprocess_variables(r, design, table) ==
    IF \E i \in DOMAIN table : \A j \in DOMAIN design : design[j].doe_id # table[i].doe_id
    THEN Step("MissingDesignRowError", r)
    ELSE IF \E attr \in Range(r.position_attributes) \cup Range(r.output_attributes) :
                attr \notin Columns(table)
    THEN Step("ConfigurationError", r)
    ELSE LET df == Expand(design, table)
             cont == Continuous(r)
         IN  IF \E attr \in cont : IsZero(Std(Column(df, attr)))
             THEN Step("ConfigurationError", r)
             ELSE Step("", [r EXCEPT
                     !.df = df,
                     !.doe_ids = Unique(Column(table, "doe_id")),
                     !.mean_values = [attr \in cont |-> Mean(Column(df, attr))],
                     !.std_values = [attr \in cont |-> Std(Column(df, attr))],
                     !.min_values = [attr \in cont |-> MinSeq(Column(df, attr))],
                     !.max_values = [attr \in cont |-> MaxSeq(Column(df, attr))]])

\* the feature columns of one process parameter of an expanded row
EncodeParameter(r, attr, v) ==
    IF attr \in Range(r.categorical_attributes)
    THEN one_hot(v, r.categorical_values[attr])
    ELSE <<Normal(r, attr, v)>>

\* the feature columns of one position attribute of an expanded row
EncodePosition(r, attr, v) ==
    IF r.angle_input THEN <<Cos(v), Sin(v)>>
    ELSE IF r.position_scaler = "normal" THEN <<Normal(r, attr, v)>>
    ELSE <<MinMax(r, attr, v)>>

\* the feature vector of an expanded row
EncodeRow(r, row) ==
    Flatten([i \in 1..Len(r.process_parameters) |->
                EncodeParameter(r, r.process_parameters[i], row[r.process_parameters[i]])])
    \o Flatten([i \in 1..Len(r.position_attributes) |->
                EncodePosition(r, r.position_attributes[i], row[r.position_attributes[i]])])

\* the normalized target vector of an expanded row
TargetRow(r, row) ==
    [k \in 1..Len(r.output_attributes) |->
        Normal(r, r.output_attributes[k], row[r.output_attributes[k]])]

\* int(validation_split * N)
NbValidation(r) == (r.validation_split[1] * Len(r.df)) \div r.validation_split[2]

\* the validation sets the split can draw: a whole experiment under
\* 'leaveoneout', int(validation_split * N) rows under 'random'
Splits(r) ==
    IF r.validation_method = "leaveoneout"
    THEN {{i \in DOMAIN r.df : r.df[i].doe_id = id} : id \in Range(r.doe_ids)}
    ELSE {rows \in SUBSET (DOMAIN r.df) : Cardinality(rows) = NbValidation(r)}

make_arrays(r, val) ==
    [r EXCEPT !.X = [i \in 1..Len(r.df) |-> EncodeRow(r, r.df[i])],
              !.target = [i \in 1..Len(r.df) |-> TargetRow(r, r.df[i])],
              !.doe_id_list = Column(r.df, "doe_id"),
              !.val_rows = val]

(***************************************************************************)
(* load_data.  The arguments are records; the sets below are the calls     *)
(* the model makes: the valid configurations and one call per defect.      *)
(***************************************************************************)
Str_tp == PyStr("tp", <<"t", "p">>)
Str_c_phi == PyStr("c_phi", <<"c", "_", "p", "h", "i">>)
Str_deviation == PyStr("deviation", <<"d", "e", "v", "i", "a", "t", "i", "o", "n">>)

ParameterLists == {<<"Blechdicke", "Ziehspalt">>, <<"Ziehspalt", "Blechdicke">>}
CategoricalLists == {<<>>, <<"Ziehspalt">>}

ValidArgs1D ==
    [doe : {doe}, data : {data},
     process_parameters : ParameterLists, categorical : CategoricalLists,
     position : {Str_tp, PyList(<<"tp">>)},
     output : {Str_deviation, PyList(<<"deviation", "thickness">>)},
     angle : BOOLEAN]

\* the call of scripts/Cut_x0_autotune.py, reduced to the parameters of the tables
ScriptArgs1D ==
    [doe |-> doe, data |-> data,
     process_parameters |-> <<"Blechdicke", "Ziehspalt">>,
     categorical |-> <<"Ziehspalt">>,
     position |-> Str_tp, output |-> PyList(<<"deviation">>), angle |-> FALSE]

DefectArgs1D ==
    {[ScriptArgs1D EXCEPT !.process_parameters = <<"Blechdicke", "Rp0">>],
     [ScriptArgs1D EXCEPT !.data = data_orphan]}

Args1D == ValidArgs1D \cup {ScriptArgs1D} \cup DefectArgs1D

Validations ==
    {[validation_split |-> Q(1, 5), validation_method |-> "random"],
     [validation_split |-> Q(1, 10), validation_method |-> "leaveoneout"]}

\* the call of scripts/Projection_2D.py, reduced to the parameters of the tables
ScriptArgs2D ==
    [doe |-> doe, data |-> data,
     process_parameters |-> <<"Blechdicke", "Ziehspalt">>,
     categorical |-> <<"Ziehspalt">>,
     position |-> PyList(<<"xp", "yp">>),
     output |-> PyList(<<"deviation", "thickness">>),
     validation |-> [validation_split |-> Q(1, 10), validation_method |-> "leaveoneout"],
     position_scaler |-> "minmax"]

ValidArgs2D ==
    {[ScriptArgs2D EXCEPT !.process_parameters = pp, !.categorical = c,
                          !.validation = v, !.position_scaler = sc] :
        pp \in ParameterLists, c \in CategoricalLists, v \in Validations,
        sc \in {"normal", "minmax"}}
    \cup {[ScriptArgs2D EXCEPT !.output = o, !.position_scaler = sc] :
            o \in {Str_deviation, PyList(<<"deviation", "thickness", "tp">>)},
            sc \in {"normal", "minmax"}}

DefectArgs2D ==
    {[ScriptArgs2D EXCEPT !.position = p] :
        p \in {PyList(<<>>), PyList(<<"xp">>), PyList(<<"xp", "yp", "tp">>),
               Str_tp, Str_c_phi}}
    \cup {[ScriptArgs2D EXCEPT !.process_parameters = <<"Blechdicke", "Rp0">>],
          [ScriptArgs2D EXCEPT !.data = data_orphan]}

Args2D == ValidArgs2D \cup DefectArgs2D

\* the three preprocessing calls that end load_data: the outcomes [reg, ret]
Preprocess(r, a) ==
    LET s1 == preprocess_parameters(r, a.doe)
        s2 == preprocess_variables(s1.reg, a.doe, a.data)
    IN  IF s1.err # "" THEN {[reg |-> s1.reg, ret |-> Raise("load_data", s1.err)]}
        ELSE IF s2.err # "" THEN {[reg |-> s2.reg, ret |-> Raise("load_data", s2.err)]}
        ELSE {[reg |-> make_arrays(s2.reg, val), ret |-> Done("load_data")] :
                val \in Splits(s2.reg)}

\* CutPredictor.load_data up to the preprocessing calls
load_names_1d(r, a) ==
    [r EXCEPT !.has_config = TRUE, !.data_loaded = TRUE,
              !.process_parameters = a.process_parameters,
              !.position_attributes = AsList(a.position),
              !.output_attributes = AsList(a.output),
              !.categorical_attributes = a.categorical,
              !.angle_input = a.angle]

\* CutPredictor.load_data
load_data_1d(r, a) == Preprocess(load_names_1d(r, a), a)

\* ProjectionPredictor.load_data up to the test of the position argument
load_head_2d(r, a) ==
    [r EXCEPT !.has_config = TRUE, !.data_loaded = TRUE,
              !.process_parameters = a.process_parameters,
              !.position_attributes = Elems(a.position)]

\* not len(self.position_attributes) == 2
position_rejected(position) == ~(PyLen(position) = 2)

\* load_data that leaves the split at the row-level default
load_tail_2d_random(r, a) ==
    [r EXCEPT !.output_attributes = AsList(a.output),
              !.categorical_attributes = a.categorical,
              !.angle_input = FALSE,
              !.position_scaler = a.position_scaler,
              !.validation_split = a.validation.validation_split,
              !.validation_method = "random"]

\* ProjectionPredictor.load_data from the output argument to the preprocessing calls
load_tail_2d(r, a) ==
    [r EXCEPT !.output_attributes = AsList(a.output),
              !.categorical_attributes = a.categorical,
              !.angle_input = FALSE,
              !.position_scaler = a.position_scaler,
              !.validation_split = a.validation.validation_split,
              !.validation_method = a.validation.validation_method]

\* ProjectionPredictor.load_data
load_data_2d(r, a) ==
    IF position_rejected(a.position)
    THEN {[reg |-> load_head_2d(r, a), ret |-> Exit("load_data")]}
    ELSE Preprocess(load_tail_2d(load_head_2d(r, a), a), a)

(***************************************************************************)
(* predict.                                                                *)
(***************************************************************************)
\* np.linspace(a, b, n)
linspace(a, b, n) ==
    [i \in 1..n |->
        IF n = 1 THEN a
        ELSE Add(a, Div(Mul(R(i - 1), Sub(b, a)), R(n - 1)))]

\* the registry has what predict reads of it: no KeyError
RegistryComplete(r, pp) ==
    /\ \A attr \in Range(r.process_parameters) :
            /\ attr \in DOMAIN pp
            /\ IF attr \in Range(r.categorical_attributes)
               THEN attr \in DOMAIN r.categorical_values
               ELSE attr \in DOMAIN r.mean_values
    /\ \A attr \in Range(r.position_attributes) \cup Range(r.output_attributes) :
            attr \in DOMAIN r.mean_values

\* the error of one_hot swallowed: the all-zero code goes on to the model
UnknownCategory_swallowed(r, pp) == FALSE

\* one_hot raises for some categorical process parameter
UnknownCategory(r, pp) ==
    \E attr \in Range(r.process_parameters) :
        /\ attr \in Range(r.categorical_attributes)
        /\ ~KnownCategory(pp[attr], r.categorical_values[attr])

\* the columns predict appends for one process parameter
parameter_block(r, pp, attr) ==
    IF attr \in Range(r.categorical_attributes)
    THEN one_hot(pp[attr], r.categorical_values[attr])
    ELSE <<Div(Sub(pp[attr], r.mean_values[attr]), r.std_values[attr])>>

\* the columns of the process parameters, the same in every row of X
parameter_columns(r, pp) ==
    Flatten([i \in 1..Len(r.process_parameters) |->
                parameter_block(r, pp, r.process_parameters[i])])

\* the columns CutPredictor.predict appends for the position attribute
position_block_1d(r, attr, v) ==
    IF ~r.angle_input
    THEN <<Div(Sub(v, r.mean_values[attr]), r.std_values[attr])>>
    ELSE <<Cos(v), Sin(v)>>

\* the rows of X in CutPredictor.predict; position is the linspace of the attribute
features_1d(r, pp, position) ==
    [n \in 1..Len(position) |->
        parameter_columns(r, pp)
        \o Flatten([i \in 1..Len(r.position_attributes) |->
                position_block_1d(r, r.position_attributes[i], position[n])])]

\* model.predict(X) reshaped to (rows, outputs) and rescaled per output
outputs(r, X) ==
    [n \in 1..Len(X) |->
        [k \in 1..Len(r.output_attributes) |->
            rescale_output(r, r.output_attributes[k], NetOutput(r.model, X[n], k))]]

\* predict without the test of has_config
not_ready_model_only(r) ==
    IF r.model = NoModel THEN "Error: no model has been trained yet." ELSE ""

\* the two tests that open predict, the same in both classes: the message
\* printed before `return`, "" when the call goes on
not_ready(r) ==
    IF ~r.has_config THEN "Error: The data has not been loaded yet."
    ELSE IF r.model = NoModel THEN "Error: no model has been trained yet."
    ELSE ""

\* CutPredictor.predict
predict_1d(r, pp, positions) ==
    IF not_ready(r) # "" THEN NoResult("predict", not_ready(r))
    ELSE IF ~RegistryComplete(r, pp) THEN Raise("predict", "KeyError")
    ELSE IF UnknownCategory(r, pp) THEN Raise("predict", "UnknownCategoryError")
    ELSE LET attr == r.position_attributes[Len(r.position_attributes)]
             position == linspace(r.min_values[attr], r.max_values[attr], positions)
             X == features_1d(r, pp, position)
         IN  [op |-> "predict", kind |-> "result", form |-> "arrays",
              X |-> X, samples |-> position, y |-> outputs(r, X)]

\* the positions argument of ProjectionPredictor.predict
Tuple(cu, cv) == [t |-> "tuple", shape |-> <<cu, cv>>, rows |-> <<>>]
NdArray(rows, d) == [t |-> "ndarray", shape |-> <<Len(rows), d>>, rows |-> rows]

\* the grid with the loops exchanged: u varies fastest
grid_u_fastest(x, y) == Flatten([j \in 1..Len(y) |-> [i \in 1..Len(x) |-> <<x[i], y[j]>>]])

\* np.array([[i, j] for i in x for j in y])
grid(x, y) == Flatten([i \in 1..Len(x) |-> [j \in 1..Len(y) |-> <<x[i], y[j]>>]])

\* v.reshape((s0, s1)) of a vector of s0 * s1 entries, in C order
reshape(v, s0, s1) == [i \in 1..s0 |-> [j \in 1..s1 |-> v[(i - 1) * s1 + j]]]

\* the column ProjectionPredictor.predict appends for position attribute i
position_value_2d(r, i, sample) ==
    LET attr == r.position_attributes[i]
    IN  IF r.position_scaler = "normal"
        THEN Div(Sub(sample[i], r.mean_values[attr]), r.std_values[attr])
        ELSE Div(Sub(sample[i], r.min_values[attr]),
                 Sub(r.max_values[attr], r.min_values[attr]))

\* X with the position columns put first
features_2d_position_first(r, pp, samples) ==
    [n \in 1..Len(samples) |->
        [i \in 1..Len(r.position_attributes) |-> position_value_2d(r, i, samples[n])]
        \o parameter_columns(r, pp)]

\* the rows of X in ProjectionPredictor.predict
features_2d(r, pp, samples) ==
    [n \in 1..Len(samples) |->
        parameter_columns(r, pp)
        \o [i \in 1..Len(r.position_attributes) |-> position_value_2d(r, i, samples[n])]]

\* result: one array of the requested shape per output attribute
result_arrays(r, X, shape) ==
    LET y == outputs(r, X)
    IN  [k \in 1..Len(r.output_attributes) |->
            reshape([n \in 1..Len(X) |-> y[n][k]], shape[1], shape[2])]

\* d[attr] = value on a frame of nrows rows: pandas takes a 2-D array of
\* shape (nrows, 1) as a column and raises ValueError for every other shape
column_accepted(nrows, shape) == shape[1] = nrows /\ shape[2] = 1

\* the DataFrame built for as_df=True
as_table(r, samples, result) ==
    [n \in 1..Len(samples) |->
        [attr \in Range(r.position_attributes) \cup Range(r.output_attributes) |->
            IF attr \in Range(r.output_attributes)
            THEN result[IndexOf(r.output_attributes, attr)][n][1]
            ELSE samples[n][IndexOf(r.position_attributes, attr)]]]

\* the generated or given samples of ProjectionPredictor.predict
samples_2d(r, positions) ==
    IF positions.t = "tuple"
    THEN grid(linspace(r.min_values[r.position_attributes[1]],
                       r.max_values[r.position_attributes[1]], positions.shape[1]),
              linspace(r.min_values[r.position_attributes[2]],
                       r.max_values[r.position_attributes[2]], positions.shape[2]))
    ELSE positions.rows

\* the shape the outputs are brought to
shape_2d(positions) ==
    IF positions.t = "tuple" THEN positions.shape ELSE <<positions.shape[1], 1>>

\* ProjectionPredictor.predict
predict_2d(r, pp, positions, as_df) ==
    IF not_ready(r) # "" THEN NoResult("predict", not_ready(r))
    ELSE IF positions.t = "ndarray" /\ positions.shape[2] # 2
    THEN NoResult("predict", "ERROR: the positions must have the shape (N, 2).")
    ELSE IF Len(r.position_attributes) < 2 THEN Raise("predict", "IndexError")
    ELSE IF ~RegistryComplete(r, pp) THEN Raise("predict", "KeyError")
    ELSE IF UnknownCategory(r, pp) THEN Raise("predict", "UnknownCategoryError")
    ELSE LET samples == samples_2d(r, positions)
             shape == shape_2d(positions)
             X == features_2d(r, pp, samples)
             result == result_arrays(r, X, shape)
         IN  IF ~as_df
             THEN [op |-> "predict", kind |-> "result", form |-> "arrays",
                        X |-> X, samples |-> samples, y |-> result]
             ELSE IF ~column_accepted(Len(samples), shape)
             THEN Raise("predict", "ValueError")
             ELSE [op |-> "predict", kind |-> "result", form |-> "table",
                        X |-> X, samples |-> samples, y |-> as_table(r, samples, result)]

(***************************************************************************)
(* compare.                                                                *)
(***************************************************************************)
\* row[idx] with Python's index: 0 is the first entry, -1 the last
PyAt(row, idx) == IF idx < 0 THEN row[Len(row) + idx + 1] ELSE row[idx + 1]

\* the rows of the experiment, in the order of the table
RowsOf(r, doe_id) ==
    LET RECURSIVE Pick(_)
        Pick(i) ==
            IF i > Len(r.doe_id_list) THEN <<>>
            ELSE IF r.doe_id_list[i] = doe_id THEN <<i>> \o Pick(i + 1)
            ELSE Pick(i + 1)
    IN  Pick(1)

\* t: the targets of the rows, rescaled per output
targets(r, rows) ==
    [n \in 1..Len(rows) |->
        [k \in 1..Len(r.output_attributes) |->
            rescale_output(r, r.output_attributes[k], r.target[rows[n]][k])]]

\* the position CutPredictor._compare plots the row against
position_1d(r, x) ==
    LET attr == r.position_attributes[Len(r.position_attributes)]
    IN  Add(r.mean_values[attr], Mul(r.std_values[attr], PyAt(x, -1)))

\* CutPredictor._compare
compare_1d(r, doe_id) ==
    IF r.model = NoModel THEN NoResult("compare", "Error: no model has been trained yet.")
    ELSE IF doe_id \notin Range(r.doe_ids)
    THEN NoResult("compare", "The experiment is not in the dataset.")
    ELSE LET rows == RowsOf(r, doe_id)
             X == [n \in 1..Len(rows) |-> r.X[rows[n]]]
         IN  [op |-> "compare", kind |-> "result", form |-> "figure",
              doe_id |-> doe_id, rows |-> rows, X |-> X,
              positions |-> [n \in 1..Len(rows) |-> position_1d(r, X[n])],
              t |-> targets(r, rows), y |-> outputs(r, X)]

\* the read-back from column i - 1 instead of i - 2
position_2d_shifted(r, i, x) ==
    LET attr == r.position_attributes[i + 1]
    IN  IF r.position_scaler = "normal"
        THEN Add(r.mean_values[attr], Mul(PyAt(x, i - 1), r.std_values[attr]))
        ELSE Add(r.min_values[attr],
                 Mul(PyAt(x, i - 1), Sub(r.max_values[attr], r.min_values[attr])))

\* the position of a row that ProjectionPredictor reads back for position attribute i
\* (i counts from 0 as in the source)
position_2d(r, i, x) ==
    LET attr == r.position_attributes[i + 1]
    IN  IF r.position_scaler = "normal"
        THEN Add(r.mean_values[attr], Mul(PyAt(x, i - 2), r.std_values[attr]))
        ELSE Add(r.min_values[attr],
                 Mul(PyAt(x, i - 2), Sub(r.max_values[attr], r.min_values[attr])))

\* ProjectionPredictor._compare
compare_2d(r, doe_id) ==
    IF r.model = NoModel THEN NoResult("compare", "Error: no model has been trained yet.")
    ELSE IF doe_id \notin Range(r.doe_ids)
    THEN NoResult("compare", "The experiment is not in the dataset.")
    ELSE LET rows == RowsOf(r, doe_id)
             X == [n \in 1..Len(rows) |-> r.X[rows[n]]]
         IN  [op |-> "compare", kind |-> "result", form |-> "arrays",
              doe_id |-> doe_id, rows |-> rows, X |-> X,
              positions |-> [i \in 1..Len(r.position_attributes) |->
                                [n \in 1..Len(rows) |-> position_2d(r, i - 1, X[n])]],
              t |-> targets(r, rows), y |-> outputs(r, X)]

\* the same read-back in ProjectionPredictor.compare_xyz
position_xyz(r, i, x) ==
    LET attr == r.position_attributes[i + 1]
    IN  IF r.position_scaler = "normal"
        THEN Add(r.mean_values[attr], Mul(PyAt(x, i - 2), r.std_values[attr]))
        ELSE Add(r.min_values[attr],
                 Mul(PyAt(x, i - 2), Sub(r.max_values[attr], r.min_values[attr])))

\* ProjectionPredictor.compare_xyz: the scatter plots read outputs 0, 1 and 2
compare_xyz(r, doe_id) ==
    IF r.model = NoModel THEN NoResult("compare_xyz", "Error: no model has been trained yet.")
    ELSE IF doe_id \notin Range(r.doe_ids)
    THEN NoResult("compare_xyz", "The experiment is not in the dataset.")
    ELSE IF Len(r.output_attributes) < 3 THEN Raise("compare_xyz", "IndexError")
    ELSE LET rows == RowsOf(r, doe_id)
             X == [n \in 1..Len(rows) |-> r.X[rows[n]]]
         IN  [op |-> "compare_xyz", kind |-> "result", form |-> "arrays",
              doe_id |-> doe_id, rows |-> rows, X |-> X,
              positions |-> [i \in 1..Len(r.position_attributes) |->
                                [n \in 1..Len(rows) |-> position_xyz(r, i - 1, X[n])]],
              t |-> targets(r, rows), y |-> outputs(r, X)]

\* Predictor.compare: the public entry, which needs the loaded data
compare(r, doe_id) ==
    IF ~r.data_loaded THEN NoResult("compare", "Error: The data has not been loaded yet.")
    ELSE IF r.class = "CutPredictor" THEN compare_1d(r, doe_id)
    ELSE compare_2d(r, doe_id)

(***************************************************************************)
(* Persistence and training of the base class.                             *)
(***************************************************************************)
ConfigFields ==
    {"process_parameters", "position_attributes", "output_attributes",
     "categorical_attributes", "angle_input", "position_scaler",
     "categorical_values", "mean_values", "std_values", "min_values", "max_values"}

\* what save_config writes: the registry and the attribute lists
Snapshot(r) == [f \in ConfigFields |-> r[f]]

\* Predictor.load_config
load_config(r, snap) ==
    [f \in DOMAIN r |->
        IF f \in ConfigFields THEN snap[f]
        ELSE IF f = "has_config" THEN TRUE
        ELSE r[f]]

\* the configuration files a run of the scripts leaves behind
PersistedConfigs(class) ==
    IF class = "CutPredictor"
    THEN {Snapshot(o.reg) : o \in load_data_1d(Fresh(class), ScriptArgs1D)}
    ELSE {Snapshot(o.reg) : o \in load_data_2d(Fresh(class), ScriptArgs2D)}

\* the network a run of the scripts leaves behind
PersistedModel == [trial |-> 2, config |-> [layers |-> 6, neurons |-> 256]]

\* a network trained on the loaded data
TrainedModel == [trial |-> 1, config |-> [layers |-> 4, neurons |-> 64]]

(***************************************************************************)
(* The calls a script makes on one predictor object, one at a time.        *)
(***************************************************************************)
\* process_parameters of predict; 20 is a Ziehspalt no experiment has
ParameterValues ==
    {[Blechdicke |-> R(1), Ziehspalt |-> R(24)],
     [Blechdicke |-> R(3), Ziehspalt |-> R(16)],
     [Blechdicke |-> R(2), Ziehspalt |-> R(20)]}

\* positions of ProjectionPredictor.predict: grids of at least one sample per
\* axis (with a count of 0 np.array([]) has one axis and samples[:, i] raises
\* IndexError) and arrays of shape (N, d)
Positions2D ==
    {Tuple(cu, cv) : cu \in 1..MaxCount, cv \in 1..MaxCount}
    \cup {NdArray(<<>>, 2),
          NdArray(<< <<R(5), R(4)>> >>, 2),
          NdArray(<< <<R(1), R(0)>>, <<R(2), R(3)>> >>, 2),
          NdArray(<< <<R(1)>>, <<R(2)>> >>, 1),
          NdArray(<< <<R(1), R(0), R(2)>> >>, 3)}

\* doe_id of compare; no table has an experiment 7
DoeIds == {1, 2, 3, 7}

Init ==
    /\ reg \in {Fresh("CutPredictor"), Fresh("ProjectionPredictor")}
    /\ ret = Idle
    /\ study = NoStudy

\* reg = CutPredictor() or reg = ProjectionPredictor() anew
Construct ==
    /\ ret.kind = "idle"
    /\ reg # Fresh(reg.class)
    /\ reg' = Fresh(reg.class)
    /\ UNCHANGED <<ret, study>>

\* load_data is called once on a predictor object
LoadData1D ==
    /\ ret.kind = "idle"
    /\ reg.class = "CutPredictor"
    /\ ~reg.data_loaded
    /\ \E a \in Args1D : \E o \in load_data_1d(reg, a) :
            /\ reg' = o.reg
            /\ ret' = o.ret @@ [args |-> a]
    /\ UNCHANGED study

LoadData2DWith(args) ==
    /\ ret.kind = "idle"
    /\ reg.class = "ProjectionPredictor"
    /\ ~reg.data_loaded
    /\ \E a \in args : \E o \in load_data_2d(reg, a) :
            /\ reg' = o.reg
            /\ ret' = o.ret @@ [args |-> a]
    /\ UNCHANGED study

LoadData2D == LoadData2DWith(Args2D)

SaveConfig ==
    /\ ret.kind = "idle"
    /\ reg.has_config
    /\ ret' = [op |-> "save_config", kind |-> "done", file |-> Snapshot(reg)]
    /\ UNCHANGED <<reg, study>>

LoadConfig ==
    /\ ret.kind = "idle"
    /\ ~reg.has_config
    /\ \E snap \in PersistedConfigs(reg.class) : reg' = load_config(reg, snap)
    /\ ret' = Done("load_config")
    /\ UNCHANGED study

\* the network is read from a file; no table is needed for it
LoadNetwork ==
    /\ ret.kind = "idle"
    /\ reg.model # PersistedModel
    /\ reg' = [reg EXCEPT !.model = PersistedModel]
    /\ ret' = Done("load_network")
    /\ UNCHANGED study

\* training needs the arrays of load_data
Train ==
    /\ ret.kind = "idle"
    /\ reg.model # TrainedModel
    /\ IF ~reg.data_loaded
       THEN /\ ret' = NoResult("train", "Error: The data has not been loaded yet.")
            /\ reg' = reg
       ELSE IF reg.X = <<>>
       THEN /\ ret' = Raise("train", "ValueError")
            /\ reg' = reg
       ELSE /\ ret' = Done("train")
            /\ reg' = [reg EXCEPT !.model = TrainedModel]
    /\ UNCHANGED study

Predict1D ==
    /\ ret.kind = "idle"
    /\ reg.class = "CutPredictor"
    /\ \E pp \in ParameterValues, positions \in 0..MaxCount :
            ret' = predict_1d(reg, pp, positions)
                        @@ [args |-> [pp |-> pp, positions |-> positions]]
    /\ UNCHANGED <<reg, study>>

Predict2D ==
    /\ ret.kind = "idle"
    /\ reg.class = "ProjectionPredictor"
    /\ \E pp \in ParameterValues, positions \in Positions2D, as_df \in BOOLEAN :
            ret' = predict_2d(reg, pp, positions, as_df)
                        @@ [args |-> [pp |-> pp, positions |-> positions, as_df |-> as_df]]
    /\ UNCHANGED <<reg, study>>

Compare ==
    /\ ret.kind = "idle"
    /\ \E doe_id \in DoeIds : ret' = compare(reg, doe_id) @@ [args |-> [doe_id |-> doe_id]]
    /\ UNCHANGED <<reg, study>>

CompareXYZ ==
    /\ ret.kind = "idle"
    /\ reg.class = "ProjectionPredictor"
    /\ \E doe_id \in DoeIds :
            ret' = compare_xyz(reg, doe_id) @@ [args |-> [doe_id |-> doe_id]]
    /\ UNCHANGED <<reg, study>>

\* the caller takes the outcome of the call and goes on
Return ==
    /\ ret.kind \notin {"idle", "running"}
    /\ ret' = Idle
    /\ UNCHANGED <<reg, study>>

Next ==
    \/ Construct
    \/ LoadData1D
    \/ LoadData2D
    \/ SaveConfig
    \/ LoadConfig
    \/ LoadNetwork
    \/ Train
    \/ Predict1D
    \/ Predict2D
    \/ Compare
    \/ CompareXYZ
    \/ Return

Spec == Init /\ [][Next]_vars

(***************************************************************************)
(* autotune: scripts/Projection_2D.py loads the data and runs the search.  *)
(* The trials run one after the other; each draws a configuration, trains  *)
(* a network and gets its validation loss (the lower the better).          *)
(***************************************************************************)
Scores == {1, 2, 3}

\* last of two equal scores wins
better_or_equal(score, best) == score <= best

\* the trial replaces the best so far
better(score, best) == score < best

\* the network trial n trained with configuration c
TrialModel(n, c) == [trial |-> n, config |-> c]

\* the record of the search after trial Len(st.history) + 1 scored `score`
trial_study(st, c, score) ==
    LET n == Len(st.history) + 1
        hist == Append(st.history, [config |-> c, score |-> score])
    IN  IF n = 1 \/ better(score, st.best_score)
        THEN [st EXCEPT !.history = hist, !.best_score = score,
                        !.best_config = c, !.saved = TrialModel(n, c)]
        ELSE [st EXCEPT !.history = hist]

\* reg.load_data(...) of the script
ScriptLoadData == LoadData2DWith({ScriptArgs2D})

\* reg.autotune(save_path, trials, ...)
AutotuneBegin ==
    /\ ret.kind = "idle"
    /\ IF ~reg.data_loaded
       THEN /\ ret' = NoResult("autotune", "Error: The data has not been loaded yet.")
            /\ study' = study
       ELSE /\ ret' = [op |-> "autotune", kind |-> "running"]
            /\ \E trials \in 1..MaxTrials :
                    study' = [NoStudy EXCEPT !.active = TRUE, !.trials = trials]
    /\ UNCHANGED reg

Trial ==
    /\ ret.kind = "running"
    /\ Len(study.history) < study.trials
    /\ \E c \in Configs, score \in Scores : study' = trial_study(study, c, score)
    /\ reg' = [reg EXCEPT !.model = study'.saved]
    /\ UNCHANGED ret

\* autotune returns the best configuration
AutotuneEnd ==
    /\ ret.kind = "running"
    /\ Len(study.history) = study.trials
    /\ ret' = [op |-> "autotune", kind |-> "result", value |-> study.best_config]
    /\ study' = [study EXCEPT !.active = FALSE]
    /\ UNCHANGED reg

InitTune ==
    /\ reg = Fresh("ProjectionPredictor")
    /\ ret = Idle
    /\ study = NoStudy

NextTune ==
    \/ ScriptLoadData
    \/ AutotuneBegin
    \/ Trial
    \/ AutotuneEnd
    \/ Return

SpecTune == InitTune /\ [][NextTune]_vars

(***************************************************************************)
(* Claims.                                                                 *)
(***************************************************************************)

ExperimentRows(x) == {i \in DOMAIN reg.doe_id_list : reg.doe_id_list[i] = x}

GridResult ==
    /\ reg.class = "ProjectionPredictor"
    /\ ret.op = "predict"
    /\ ret.kind = "result"
    /\ ret.form = "arrays"
    /\ ret.args.positions.t = "tuple"

\* xs starts at a, ends at b when it has more than one value, in equal steps
EvenlySpaced(xs, a, b) ==
    /\ xs[1] = a
    /\ Len(xs) > 1 => xs[Len(xs)] = b
    /\ \A i \in 2..(Len(xs) - 1) : Sub(xs[i], xs[i - 1]) = Sub(xs[i + 1], xs[i])

\* C3: for a grid request (countU, countV) the samples are the countU * countV
\* pairs of evenly spaced values of the two position attributes over [min, max],
\* v varying fastest within fixed u, and element [k][i][j] of the returned
\* array is the rescaled output k of the model for sample i * countV + j.
C3_GridOrder ==
    GridResult =>
        LET cu == ret.args.positions.shape[1]
            cv == ret.args.positions.shape[2]
            us == [i \in 1..cu |-> ret.samples[(i - 1) * cv + 1][1]]
            vs == [j \in 1..cv |-> ret.samples[j][2]]
        IN  /\ Len(ret.samples) = cu * cv
            /\ Len(ret.X) = cu * cv
            /\ EvenlySpaced(us, reg.min_values[reg.position_attributes[1]],
                                reg.max_values[reg.position_attributes[1]])
            /\ EvenlySpaced(vs, reg.min_values[reg.position_attributes[2]],
                                reg.max_values[reg.position_attributes[2]])
            /\ \A i \in 1..cu, j \in 1..cv :
                    LET n == (i - 1) * cv + j
                    IN  /\ ret.samples[n] = <<us[i], vs[j]>>
                        /\ \A q \in 1..2 :
                             ret.X[n][Len(ret.X[n]) - 2 + q] = position_value_2d(reg, q, ret.samples[n])
                        /\ \A k \in 1..Len(reg.output_attributes) :
                             ret.y[k][i][j] =
                                rescale_output(reg, reg.output_attributes[k],
                                               NetOutput(reg.model, ret.X[n], k))

\* a grid of 2 by 3 samples was predicted
C3_Witness ==
    /\ GridResult
    /\ ret.args.positions.shape = <<2, 3>>
    /\ Len(ret.samples) = 6
    /\ ret.samples[2] # ret.samples[4]

\* the number of feature columns of a process parameter
Width(attr) ==
    IF attr \in Range(reg.categorical_attributes)
    THEN Len(reg.categorical_values[attr])
    ELSE 1

RECURSIVE Offset(_)
\* the number of feature columns before those of process parameter i
Offset(i) == IF i = 1 THEN 0 ELSE Offset(i - 1) + Width(reg.process_parameters[i - 1])

\* the number of feature columns of a position attribute
PositionWidth == IF reg.class = "CutPredictor" /\ reg.angle_input THEN 2 ELSE 1

\* predict has returned a prediction
PredictResult == ret.op = "predict" /\ ret.kind = "result"

\* the position of sample n in position attribute q, as predict returned it
SampleValue(n, q) ==
    IF reg.class = "CutPredictor" THEN ret.samples[n] ELSE ret.samples[n][q]

\* the columns a position value is to have in X
ExpectedPosition(attr, v) ==
    IF reg.class = "CutPredictor"
    THEN IF reg.angle_input THEN <<Cos(v), Sin(v)>> ELSE <<Normal(reg, attr, v)>>
    ELSE IF reg.position_scaler = "normal" THEN <<Normal(reg, attr, v)>>
    ELSE <<MinMax(reg, attr, v)>>

\* C4: every row of the feature matrix predict builds has the process
\* parameters first, in declaration order (a one-hot block for a categorical
\* one, one scaled column for a continuous one), and the position columns
\* last, in declaration order; its width is the sum of the widths.
C4_ColumnOrder ==
    PredictResult =>
        LET np == Len(reg.process_parameters)
            base == Offset(np + 1)
        IN  \A n \in DOMAIN ret.X :
                /\ Len(ret.X[n]) = base + PositionWidth * Len(reg.position_attributes)
                /\ \A i \in 1..np :
                     LET attr == reg.process_parameters[i]
                         v == ret.args.pp[attr]
                     IN  IF attr \in Range(reg.categorical_attributes)
                         THEN \A c \in 1..Width(attr) :
                                ret.X[n][Offset(i) + c] =
                                    IF reg.categorical_values[attr][c] = v THEN R(1) ELSE R(0)
                         ELSE ret.X[n][Offset(i) + 1] = Normal(reg, attr, v)
                /\ \A q \in 1..Len(reg.position_attributes) :
                     LET cols == ExpectedPosition(reg.position_attributes[q], SampleValue(n, q))
                     IN  \A c \in 1..PositionWidth :
                            ret.X[n][base + (q - 1) * PositionWidth + c] = cols[c]

\* CutPredictor in angular mode predicted with a categorical parameter
\* declared first: 2 one-hot columns, 1 scaled column, cos and sin
C4_Witness ==
    /\ PredictResult
    /\ reg.class = "CutPredictor"
    /\ reg.angle_input
    /\ reg.process_parameters = <<"Ziehspalt", "Blechdicke">>
    /\ reg.categorical_attributes = <<"Ziehspalt">>
    /\ Len(ret.X) = MaxCount
    /\ Len(ret.X[1]) = 5

\* predict was given a value the registry does not hold for a categorical parameter
UnknownValueGiven ==
    \E attr \in Range(reg.process_parameters) :
        /\ attr \in Range(reg.categorical_attributes)
        /\ attr \in DOMAIN reg.categorical_values
        /\ \A c \in DOMAIN reg.categorical_values[attr] :
                reg.categorical_values[attr][c] # ret.args.pp[attr]

C7_DecodeInvertsEncode ==
    (PredictResult /\ reg.class = "ProjectionPredictor") =>
        \A n \in DOMAIN ret.X : \A i \in 1..Len(reg.position_attributes) :
            /\ position_2d(reg, i - 1, ret.X[n]) = ret.samples[n][i]
            /\ position_xyz(reg, i - 1, ret.X[n]) = ret.samples[n][i]

\* a position off the ends of the ranges was encoded under 'minmax'
C7_Witness ==
    /\ PredictResult
    /\ reg.class = "ProjectionPredictor"
    /\ reg.position_scaler = "minmax"
    /\ Len(ret.samples) = 2
    /\ ret.samples[2] = <<R(2), R(3)>>
    /\ ret.X[2][Len(ret.X[2])] = Q(3, 4)

\* the position argument is a list of exactly two names
TwoNames(position) == IsList(position) /\ PyLen(position) = 2

\* no registry, expanded table or array has been built
NothingBuilt ==
    /\ DOMAIN reg.categorical_values = {}
    /\ DOMAIN reg.mean_values = {}
    /\ reg.df = <<>>
    /\ reg.X = <<>>

\* C8: ProjectionPredictor.load_data ends the process with the configuration
\* error for every position argument that is not exactly two position
\* attribute names, before anything is built, and goes on to the
\* preprocessing only for exactly two names.
C8_RejectsAllButTwoNames ==
    (ret.op = "load_data" /\ reg.class = "ProjectionPredictor") =>
        IF TwoNames(ret.args.position)
        THEN ret.kind # "exit"
        ELSE ret.kind = "exit" /\ NothingBuilt

\* C9: with as_df = True every request that predict answers with arrays, a grid
\* (countU, countV) as well as an (N, 2) array, is answered with a table of one
\* row per sample whose columns are the position and output attributes, row n
\* holding sample n and its rescaled prediction.
C9_TableForEveryRequest ==
    (/\ ret.op = "predict"
     /\ reg.class = "ProjectionPredictor"
     /\ ret.args.as_df
     /\ predict_2d(reg, ret.args.pp, ret.args.positions, FALSE).kind = "result")
    => /\ ret.kind = "result"
       /\ ret.form = "table"
       /\ Len(ret.y) = Len(ret.samples)
       /\ \A n \in DOMAIN ret.y :
            /\ DOMAIN ret.y[n] = Range(reg.position_attributes) \cup Range(reg.output_attributes)
            /\ \A q \in 1..Len(reg.position_attributes) :
                    ret.y[n][reg.position_attributes[q]] = ret.samples[n][q]
            /\ \A k \in 1..Len(reg.output_attributes) :
                    ret.y[n][reg.output_attributes[k]] =
                        rescale_output(reg, reg.output_attributes[k],
                                       NetOutput(reg.model, ret.X[n], k))

\* C10: CutPredictor compare pairs the values of a row with the raw position
\* of that row, in non-angular and in angular mode: what it reads back from
\* the last feature column is the position that was encoded for the row.
C10_RawPositionRecovered ==
    (ret.op = "compare" /\ ret.kind = "result" /\ reg.class = "CutPredictor") =>
        \A n \in DOMAIN ret.rows :
            ret.positions[n] =
                reg.df[ret.rows[n]][reg.position_attributes[Len(reg.position_attributes)]]

\* C11: a load_data call that fails part-way (a missing attribute, a position
\* argument of the wrong dimensionality, an experiment without design row)
\* leaves has_config and data_loaded as they were before the call: the
\* predictor is marked configured and data-loaded only by a load_data call
\* that completed its preprocessing, table expansion and array building.
C11_FailedLoadLeavesUnready ==
    [][(/\ ret.kind = "idle"
        /\ ret'.op = "load_data"
        /\ ret'.kind # "done")
       => (/\ reg'.has_config = reg.has_config
           /\ reg'.data_loaded = reg.data_loaded)]_vars

\* the first trial of the history with the lowest validation loss
BestTrial(h) ==
    CHOOSE b \in DOMAIN h :
        /\ \A n \in DOMAIN h : h[b].score <= h[n].score
        /\ \A n \in 1..(b - 1) : h[n].score > h[b].score

====
